---- MODULE Spec2Model ----
(***************************************************************************)
(* Model of src/app.py: the Streamlit script `main` of the Holded sales    *)
(* dashboard.  One script run is split into the steps the script executes  *)
(* in order: the session/logout prologue, the authentication screen, the   *)
(* fetch, and the three tabs (overview, product analysis, forecasting).    *)
(* A run ends at pc = "idle", where the page waits for the next widget     *)
(* interaction; st.rerun() starts the next run at once.                    *)
(***************************************************************************)
EXTENDS Integers, Sequences, FiniteSets, TLC

VARIABLES
    initialized,      \* 'authenticated' in st.session_state
    authenticated,    \* st.session_state.authenticated
    api_key,          \* st.session_state.api_key
    widgets,          \* buttons the last finished run rendered
    click,            \* the button whose click started the current run
    pc,               \* position of the current run in the script
    page,             \* messages and artifacts the current run has emitted
    sales_data,       \* result of analyzer.get_sales_data
    df,               \* pd.DataFrame(sales_data)
    total_sales, avg_order, n_orders, daily_sales,
    products, selected_product, product_total, units_sold, product_daily,
    monthly_sales, fit_input, forecast,
    last_connect,     \* history: key and result of the last Connect click
    fetch_key,        \* history: key of the analyzer that fetched
    run_auth          \* history: authenticated when the current run began

session == <<initialized, authenticated, api_key>>
tab1 == <<total_sales, avg_order, n_orders, daily_sales>>
tab2 == <<products, selected_product, product_total, units_sold, product_daily>>
tab3 == <<monthly_sales, fit_input, forecast>>
vars == <<initialized, authenticated, api_key, widgets, click, pc, page,
          sales_data, df, total_sales, avg_order, n_orders, daily_sales,
          products, selected_product, product_total, units_sold, product_daily,
          monthly_sales, fit_input, forecast, last_connect, fetch_key, run_auth>>

(***************************************************************************)
(* Bounds of the input domain.                                             *)
(***************************************************************************)
MaxRows == 2          \* longest free-form batch returned by the API
MaxMonth == 14        \* month indices of the monthly batches: 1..MaxMonth
MaxGaps == 2          \* months missing from a monthly batch
UnitPrice == 10       \* total of an invoice = quantity * UnitPrice
PermLen == 3          \* batches up to this length are checked on all permutations

None == "None"
Keys == {"k1", "k2"}
NoKey == ""

(***************************************************************************)
(* Input data.  A date string is modelled by the calendar day it denotes,  *)
(* mon = 0 standing for a string pd.to_datetime cannot parse.              *)
(***************************************************************************)
Date(m, d) == [mon |-> m, day |-> d]
BadDate == Date(0, 0)
ProductIds == {"A", "B", None}
AllColumns == {"date", "total", "quantity", "productId", "items"}
Schemas == {AllColumns, AllColumns \ {"quantity"}, AllColumns \ {"total"},
            AllColumns \ {"total", "productId"}}

LineItem(p) == [productId |-> p, units |-> 1, subtotal |-> UnitPrice]
ItemsOf(p, q) == IF p = None THEN <<>> ELSE [i \in 1..q |-> LineItem(p)]
Invoice(d, p, q) ==
    [date |-> d, total |-> q * UnitPrice, quantity |-> q, productId |-> p,
     items |-> ItemsOf(p, q)]

FreeDates == {Date(1, 1), Date(1, 2), BadDate}
Quantities == {1, 2}
FreeInvoices == {Invoice(d, p, q) : d \in FreeDates, p \in ProductIds, q \in Quantities}
SeqsUpTo(S, n) == UNION {[1..k -> S] : k \in 0..n}
FreeBatches == {[keys |-> k, rows |-> r] : k \in Schemas, r \in SeqsUpTo(FreeInvoices, MaxRows)}

RECURSIVE SetToSeq(_)
SetToSeq(S) ==
    IF S = {} THEN <<>>
    ELSE LET m == CHOOSE x \in S : \A y \in S : x <= y
         IN <<m>> \o SetToSeq(S \ {m})
MonthSets == {S \in SUBSET (1..MaxMonth) : Cardinality(S) >= MaxMonth - MaxGaps}
MonthlyInvoice(m) == Invoice(Date(m, 1), "A", 1 + (m % 2))
MonthlyBatch(S) ==
    [keys |-> AllColumns,
     rows |-> LET s == SetToSeq(S) IN [i \in 1..Len(s) |-> MonthlyInvoice(s[i])]]
MonthlyBatches == {MonthlyBatch(S) : S \in MonthSets}
Batches == FreeBatches \cup MonthlyBatches

NoData == [is_none |-> TRUE, keys |-> {}, rows |-> <<>>]
Json(b) == [is_none |-> FALSE, keys |-> b.keys, rows |-> b.rows]
NoFrame == [columns |-> {}, rows |-> <<>>]


(***************************************************************************)
(* The HTTP collaborator: a response is an exception or a status code.     *)
(***************************************************************************)
HttpOk == 200
Responses == {[raised |-> TRUE, status_code |-> 0],
              [raised |-> FALSE, status_code |-> HttpOk],
              [raised |-> FALSE, status_code |-> 401]}

AlwaysConnected(r) == TRUE

\* HoldedAnalytics.test_connection
test_connection(r) == IF r.raised THEN FALSE ELSE r.status_code = HttpOk

\* HoldedAnalytics.get_sales_data: the parsed body on 200, None otherwise
get_sales_data(r, b) ==
    IF r.raised THEN NoData
    ELSE IF r.status_code = HttpOk THEN Json(b) ELSE NoData

\* `if sales_data:` is false for None and for an empty list
Truthy(sd) == ~sd.is_none /\ Len(sd.rows) > 0

\* pd.DataFrame(list of dicts): one row per element of the list
DataFrame(sd) == [columns |-> sd.keys, rows |-> sd.rows]

(***************************************************************************)
(* pandas operations used by the tabs.                                     *)
(***************************************************************************)
\* pd.to_datetime(column) raises when one value cannot be parsed
CanParse(rows) == \A i \in 1..Len(rows) : rows[i].date # BadDate

\* .dt.date: the calendar day, ordered as its yyyymmdd digits are
DayOf(d) == d.mon * 100 + d.day
\* .dt.to_period('M'): the calendar month
MonthOf(d) == d.mon
PeriodOf(d, gran) == IF gran = "day" THEN DayOf(d) ELSE MonthOf(d)

AddUnsorted(series, k, v) ==
    IF \E i \in 1..Len(series) : series[i].period = k
    THEN [i \in 1..Len(series) |->
            IF series[i].period = k
            THEN [period |-> k, value |-> series[i].value + v]
            ELSE series[i]]
    ELSE Append(series, [period |-> k, value |-> v])

AddToGroupLast(series, k, v) ==
    IF \E i \in 1..Len(series) : series[i].period = k
    THEN [i \in 1..Len(series) |->
            IF series[i].period = k THEN [period |-> k, value |-> v] ELSE series[i]]
    ELSE LET n == Cardinality({i \in 1..Len(series) : series[i].period < k})
         IN SubSeq(series, 1, n) \o <<[period |-> k, value |-> v]>>
            \o SubSeq(series, n + 1, Len(series))

\* one group of a groupby(...).sum(): add to the group of key k, keeping the
\* groups ordered by key (groupby sorts the group keys)
AddToGroup(series, k, v) ==
    IF \E i \in 1..Len(series) : series[i].period = k
    THEN [i \in 1..Len(series) |->
            IF series[i].period = k
            THEN [period |-> k, value |-> series[i].value + v]
            ELSE series[i]]
    ELSE LET n == Cardinality({i \in 1..Len(series) : series[i].period < k})
         IN SubSeq(series, 1, n) \o <<[period |-> k, value |-> v]>>
            \o SubSeq(series, n + 1, Len(series))

RECURSIVE GroupBySum(_, _, _)
\* rows.groupby(period of date)[field].sum()
GroupBySum(rows, gran, field) ==
    IF rows = <<>> THEN <<>>
    ELSE LET n == Len(rows)
         IN AddToGroup(GroupBySum(SubSeq(rows, 1, n - 1), gran, field),
                       PeriodOf(rows[n].date, gran), rows[n][field])

RECURSIVE ColumnSum(_, _)
\* rows[field].sum()
ColumnSum(rows, field) ==
    IF rows = <<>> THEN 0
    ELSE rows[Len(rows)][field] + ColumnSum(SubSeq(rows, 1, Len(rows) - 1), field)

\* elementwise ==: a missing value (None/NaN) equals nothing, itself included
PandasEq(a, b) == a # None /\ b # None /\ a = b

RECURSIVE SelectRows(_, _)
\* df[df['productId'] == selected]
SelectRows(rows, sel) ==
    IF rows = <<>> THEN <<>>
    ELSE LET n == Len(rows)
             rest == SelectRows(SubSeq(rows, 1, n - 1), sel)
         IN IF PandasEq(rows[n].productId, sel) THEN Append(rest, rows[n]) ELSE rest

RECURSIVE Unique(_)
\* df['productId'].unique(): the values in order of first appearance
Unique(rows) ==
    IF rows = <<>> THEN <<>>
    ELSE LET n == Len(rows)
             rest == Unique(SubSeq(rows, 1, n - 1))
         IN IF \E i \in 1..Len(rest) : rest[i] = rows[n].productId
            THEN rest ELSE Append(rest, rows[n].productId)

(***************************************************************************)
(* Forecasting constants and the seasonal model's forecast index.          *)
(***************************************************************************)
MinHistory == 12      \* len(monthly_sales) > 12
MinHorizon == 1       \* slider min_value
MaxHorizon == 12      \* slider max_value
ForecastValues == {0 - 1, 1}

\* results.forecast(steps): the model counts its observations as consecutive
\* periods from the first index entry, so out-of-sample step i is labelled
\* first period + nobs + i - 1.
SarimaxForecast(endog, steps, v) ==
    [i \in 1..steps |-> [period |-> endog[1].period + Len(endog) + i - 1, value |-> v]]


(***************************************************************************)
(* The script.                                                             *)
(***************************************************************************)
NoSeries == <<>>
NoResponse == [raised |-> TRUE, status_code |-> 0]
NoConnect == [key |-> NoKey, response |-> NoResponse]

Init ==
    /\ initialized = FALSE
    /\ authenticated = FALSE
    /\ api_key = None
    /\ widgets = {}
    /\ click = "none"
    /\ pc = "idle"
    /\ page = {}
    /\ sales_data = NoData
    /\ df = NoFrame
    /\ total_sales = 0 /\ avg_order = <<0, 1>> /\ n_orders = 0
    /\ daily_sales = NoSeries
    /\ products = <<>> /\ selected_product = None /\ product_total = 0
    /\ units_sold = 0 /\ product_daily = NoSeries
    /\ monthly_sales = NoSeries /\ fit_input = NoSeries /\ forecast = NoSeries
    /\ last_connect = NoConnect
    /\ fetch_key = None
    /\ run_auth = FALSE

\* what every run starts from: nothing rendered, nothing computed
FreshRun ==
    /\ page' = {}
    /\ sales_data' = NoData
    /\ df' = NoFrame
    /\ total_sales' = 0 /\ avg_order' = <<0, 1>> /\ n_orders' = 0
    /\ daily_sales' = NoSeries
    /\ products' = <<>> /\ selected_product' = None /\ product_total' = 0
    /\ units_sold' = 0 /\ product_daily' = NoSeries
    /\ monthly_sales' = NoSeries /\ fit_input' = NoSeries /\ forecast' = NoSeries
    /\ fetch_key' = None

\* st.rerun(): the run is abandoned and the script runs again with no click
Rerun ==
    /\ FreshRun
    /\ pc' = "main"
    /\ click' = "none"
    /\ run_auth' = authenticated'
    /\ UNCHANGED widgets

\* the script returns (or its run ends): the page shows the buttons in w
EndRun(w) ==
    /\ pc' = "idle"
    /\ widgets' = w

\* the browser triggers a run: the first load, or a click on a rendered button
StartRun ==
    /\ pc = "idle"
    /\ \E c \in widgets \cup {"none"} : click' = c
    /\ FreshRun
    /\ pc' = "main"
    /\ run_auth' = (initialized /\ authenticated)
    /\ UNCHANGED <<session, widgets, last_connect>>

\* main, lines 78-87: session initialisation and the logout handler
Prologue ==
    /\ pc = "main"
    /\ initialized' = TRUE
    /\ IF click = "Logout"
       THEN /\ authenticated' = FALSE
            /\ api_key' = None
            /\ Rerun
       ELSE /\ authenticated' = (initialized /\ authenticated)
            /\ api_key' = IF initialized THEN api_key ELSE None
            /\ pc' = IF authenticated' THEN "fetch" ELSE "auth"
            /\ UNCHANGED <<widgets, click, page, sales_data, df, tab1, tab2, tab3,
                           fetch_key, run_auth>>
    /\ UNCHANGED last_connect

\* main, lines 89-124: the authentication screen
AuthScreen ==
    /\ pc = "auth"
    /\ \E text \in Keys \cup {NoKey}, r \in Responses :
         IF click = "Connect"
         THEN IF text # NoKey
              THEN /\ last_connect' = [key |-> text, response |-> r]
                   /\ IF test_connection(r)
                      THEN /\ api_key' = text
                           /\ authenticated' = TRUE
                           /\ Rerun
                      ELSE /\ page' = page \cup {"error:invalid_key"}
                           /\ EndRun({"Logout", "Connect"})
                           /\ UNCHANGED <<authenticated, api_key, click, sales_data, df,
                                          tab1, tab2, tab3, fetch_key, run_auth>>
              ELSE /\ last_connect' = [key |-> NoKey, response |-> NoResponse]
                   /\ page' = page \cup {"warning:enter_key"}
                   /\ EndRun({"Logout", "Connect"})
                   /\ UNCHANGED <<authenticated, api_key, click, sales_data, df,
                                  tab1, tab2, tab3, fetch_key, run_auth>>
         ELSE /\ EndRun({"Logout", "Connect"})
              /\ UNCHANGED <<authenticated, api_key, click, page, sales_data, df,
                             tab1, tab2, tab3, fetch_key, run_auth, last_connect>>
    /\ UNCHANGED initialized

\* main, lines 126-155 and 323-324: fetch, the emptiness test, the DataFrame
Fetch ==
    /\ pc = "fetch"
    /\ fetch_key' = api_key
    /\ \E r \in Responses, b \in Batches :
         /\ r.status_code # HttpOk => b = [keys |-> AllColumns, rows |-> <<>>]
         /\ sales_data' = get_sales_data(r, b)
    /\ IF Truthy(sales_data')
       THEN /\ df' = DataFrame(sales_data')
            /\ pc' = "tab1"
            /\ UNCHANGED <<page, widgets>>
       ELSE /\ df' = NoFrame
            /\ page' = page \cup ({"warning:no_data"}
                         \cup IF sales_data'.is_none THEN {"error:fetch"} ELSE {})
            /\ EndRun({"Logout"})
    /\ UNCHANGED <<session, click, tab1, tab2, tab3, last_connect, run_auth>>

\* main, lines 320-322: the handler of the try around the three tabs
\* (emitted: what the failing tab had put on the page before it raised)
OuterExcept(emitted) ==
    /\ page' = page \cup emitted \cup {"error:processing"}
    /\ EndRun({"Logout"})


\* main, lines 164-197: the Sales Overview tab
Tab1 ==
    /\ pc = "tab1"
    /\ total_sales' = IF "total" \in df.columns THEN ColumnSum(df.rows, "total") ELSE 0
    /\ avg_order' = IF "total" \in df.columns
                    THEN <<ColumnSum(df.rows, "total"), Len(df.rows)>> ELSE <<0, 1>>
    /\ n_orders' = Len(df.rows)
    /\ IF "date" \in df.columns /\ "total" \in df.columns
       THEN IF CanParse(df.rows)
            THEN /\ daily_sales' = GroupBySum(df.rows, "day", "total")
                 /\ page' = page \cup {"metrics", "chart:daily"}
                 /\ pc' = "tab2"
                 /\ UNCHANGED widgets
            ELSE /\ daily_sales' = NoSeries
                 /\ OuterExcept({"metrics"})
       ELSE /\ daily_sales' = NoSeries
            /\ page' = page \cup {"metrics", "warning:overview_columns"}
            /\ pc' = "tab2"
            /\ UNCHANGED widgets
    /\ UNCHANGED <<session, click, sales_data, df, tab2, tab3, last_connect,
                   fetch_key, run_auth>>

\* main, lines 199-239: the Product Analysis tab
Tab2 ==
    /\ pc = "tab2"
    /\ IF "productId" \in df.columns
       THEN \E k \in 1..Len(Unique(df.rows)) :
              LET sel == Unique(df.rows)[k]
                  product_data == SelectRows(df.rows, sel)
              IN /\ products' = Unique(df.rows)
                 /\ selected_product' = sel
                 /\ IF "total" \notin df.columns
                    THEN /\ OuterExcept({})
                         /\ UNCHANGED <<product_total, units_sold, product_daily>>
                    ELSE /\ product_total' = ColumnSum(product_data, "total")
                         /\ units_sold' = IF "quantity" \in df.columns
                                          THEN ColumnSum(product_data, "quantity") ELSE 0
                         /\ IF "date" \in df.columns /\ "quantity" \in df.columns
                            THEN IF CanParse(product_data)
                                 THEN /\ product_daily' =
                                           GroupBySum(product_data, "day", "quantity")
                                      /\ page' = page \cup {"product_metrics", "chart:product"}
                                      /\ pc' = "tab3"
                                      /\ UNCHANGED widgets
                                 ELSE /\ OuterExcept({"product_metrics"})
                                      /\ UNCHANGED product_daily
                            ELSE /\ page' = page \cup {"product_metrics"}
                                 /\ pc' = "tab3"
                                 /\ UNCHANGED <<widgets, product_daily>>
       ELSE /\ page' = page \cup {"warning:no_product"}
            /\ pc' = "tab3"
            /\ UNCHANGED <<widgets, tab2>>
    /\ UNCHANGED <<session, click, sales_data, df, tab1, tab3, last_connect,
                   fetch_key, run_auth>>

\* main, lines 257-259: the monthly series of the forecast
MonthlySales(rows) == GroupBySum(rows, "month", "quantity")

\* main, line 261: enough data for the seasonal model
EnoughHistory(series) == Len(series) > MinHistory

ForecastExceptReraise == page' = page \cup {"error:forecast", "error:processing"}

\* main, lines 315-316: the handler of the try around the forecast
ForecastExcept == page' = page \cup {"error:forecast"}

\* main, lines 241-318: the Forecasting tab
Tab3 ==
    /\ pc = "tab3"
    /\ IF "date" \in df.columns /\ "quantity" \in df.columns
       THEN /\ EndRun({"Logout", "Generate"})
            /\ IF click = "Generate"
               THEN IF CanParse(df.rows)
                    THEN /\ monthly_sales' = MonthlySales(df.rows)
                         /\ IF EnoughHistory(monthly_sales')
                            THEN /\ fit_input' = monthly_sales'
                                 /\ \/ \E forecast_periods \in MinHorizon..MaxHorizon,
                                          v \in ForecastValues :
                                         /\ forecast' = SarimaxForecast(
                                                fit_input', forecast_periods, v)
                                         /\ page' = page \cup {"chart:forecast", "download:csv"}
                                    \/ /\ ForecastExcept
                                       /\ UNCHANGED forecast
                            ELSE /\ page' = page \cup {"warning:history"}
                                 /\ UNCHANGED <<fit_input, forecast>>
                    ELSE /\ ForecastExcept
                         /\ UNCHANGED tab3
               ELSE UNCHANGED <<page, tab3>>
       ELSE /\ page' = page \cup {"warning:forecast_columns"}
            /\ EndRun({"Logout"})
            /\ UNCHANGED tab3
    /\ UNCHANGED <<session, click, sales_data, df, tab1, tab2, last_connect,
                   fetch_key, run_auth>>

Next == StartRun \/ Prologue \/ AuthScreen \/ Fetch \/ Tab1 \/ Tab2 \/ Tab3

Spec == Init /\ [][Next]_vars


(***************************************************************************)
(* Vocabulary of the properties.                                           *)
(***************************************************************************)
Positions(rows) == 1..Len(rows)
GoodRows(rows) == SelectSeq(rows, LAMBDA r : r.date # BadDate)

RECURSIVE SumAt(_, _, _)
\* sum of a field over the rows at the positions in S
SumAt(rows, S, field) ==
    IF S = {} THEN 0
    ELSE LET i == CHOOSE x \in S : TRUE
         IN rows[i][field] + SumAt(rows, S \ {i}, field)

PeriodsOf(rows, gran) == {PeriodOf(rows[i].date, gran) : i \in Positions(rows)}
PeriodsIn(series) == {series[i].period : i \in 1..Len(series)}
StrictlyIncreasing(series) ==
    \A i \in 1..Len(series) - 1 : series[i].period < series[i + 1].period

\* series is the sparse, sorted, per-period sum of field over rows
IsAggregateOf(series, rows, gran, field) ==
    /\ StrictlyIncreasing(series)
    /\ PeriodsIn(series) = PeriodsOf(rows, gran)
    /\ \A i \in 1..Len(series) :
         series[i].value =
           SumAt(rows, {j \in Positions(rows) :
                          PeriodOf(rows[j].date, gran) = series[i].period}, field)

\* the value a series carries for a period, 0 where it has no entry
ValueAt(series, k) ==
    IF \E i \in 1..Len(series) : series[i].period = k
    THEN series[CHOOSE i \in 1..Len(series) : series[i].period = k].value
    ELSE 0

Reorderings(rows) ==
    {[i \in Positions(rows) |-> rows[f[i]]] :
        f \in {g \in [Positions(rows) -> Positions(rows)] :
                 \A a, b \in Positions(rows) : g[a] = g[b] => a = b}}
Reversed(rows) == [i \in Positions(rows) |-> rows[Len(rows) + 1 - i]]
Swapped(rows, a) ==
    [i \in Positions(rows) |->
       IF i = a THEN rows[a + 1] ELSE IF i = a + 1 THEN rows[a] ELSE rows[i]]
\* the reorderings of a batch: all of them for a short batch; the reversal and
\* the adjacent transpositions for a long one
Shuffles(rows) ==
    IF Len(rows) <= PermLen THEN Reorderings(rows)
    ELSE {Reversed(rows)} \cup {Swapped(rows, a) : a \in 1..Len(rows) - 1}

RECURSIVE ItemCount(_)
ItemCount(rows) ==
    IF rows = <<>> THEN 0
    ELSE Len(rows[Len(rows)].items) + ItemCount(SubSeq(rows, 1, Len(rows) - 1))

\* the run has built the table aggregation consumes
TableBuilt == df # NoFrame
\* the steps of the current run that are over
OverviewDone == TableBuilt /\ pc \in {"tab2", "tab3", "idle"}
TrendDrawn == "chart:daily" \in page
ProductTrendDrawn == "chart:product" \in page
MonthlyBuilt == monthly_sales # NoSeries
FitAttempted == fit_input # NoSeries
ForecastProduced == forecast # NoSeries


Success(r) == ~r.raised /\ r.status_code = HttpOk
ObservedMonths == PeriodsOf(df.rows, "month")
FirstMonth == CHOOSE m \in ObservedMonths : \A k \in ObservedMonths : m <= k
LastMonth == CHOOSE m \in ObservedMonths : \A k \in ObservedMonths : k <= m
DenseLength == LastMonth - FirstMonth + 1
RowsOfMonth(m) == {j \in Positions(df.rows) : MonthOf(df.rows[j].date) = m}

RECURSIVE SumOverProducts(_, _, _)
\* sum, over the selectable products, of the per-product daily quantity of day k
SumOverProducts(ps, rows, k) ==
    IF ps = <<>> THEN 0
    ELSE ValueAt(GroupBySum(SelectRows(rows, ps[Len(ps)]), "day", "quantity"), k)
         + SumOverProducts(SubSeq(ps, 1, Len(ps) - 1), rows, k)

(***************************************************************************)
(* Properties.                                                             *)
(***************************************************************************)

\* C1: the insufficient-history warning is given exactly when the densified
\* monthly series (every month from the first to the last observed one) has
\* fewer than 13 periods; with 13 or more the model fit is attempted.
C1_InsufficientHistoryGuard ==
    MonthlyBuilt =>
        /\ ("warning:history" \in page) <=> (DenseLength < MinHistory + 1)
        /\ DenseLength >= MinHistory + 1 => FitAttempted

\* C2: the series handed to the seasonal model has one entry for every
\* calendar month from the first to the last observed month, 0 for a month
\* without records and the summed quantity for an observed month.
C2_DensifiedBeforeFit ==
    FitAttempted =>
        /\ Len(fit_input) = DenseLength
        /\ \A i \in 1..Len(fit_input) :
             /\ fit_input[i].period = FirstMonth + i - 1
             /\ fit_input[i].value =
                  SumAt(df.rows, RowsOfMonth(FirstMonth + i - 1), "quantity")

\* C3: a forecast for horizon h in 1..12 has exactly h entries, for the h
\* consecutive months right after the last historical month, in order.
C3_ForecastContiguity ==
    ForecastProduced =>
        /\ Len(forecast) \in MinHorizon..MaxHorizon
        /\ \A i \in 1..Len(forecast) : forecast[i].period = LastMonth + i

\* C4: the table aggregation consumes has one row per (invoice, line item):
\* as many rows as line items over the invoices with a parseable date, and
\* the order count is that number too.
C4_NormalizationRowShape ==
    TableBuilt =>
        /\ Len(df.rows) = ItemCount(GoodRows(sales_data.rows))
        /\ OverviewDone => n_orders = ItemCount(GoodRows(sales_data.rows))

\* C5: every aggregated series the dashboard draws has exactly one entry per
\* period holding a record, strictly increasing periods, and per entry the
\* sum of the value field over the records of the period.
C5_SparseSortedAggregation ==
    /\ TrendDrawn => IsAggregateOf(daily_sales, df.rows, "day", "total")
    /\ ProductTrendDrawn =>
         IsAggregateOf(product_daily, SelectRows(df.rows, selected_product),
                       "day", "quantity")
    /\ MonthlyBuilt => IsAggregateOf(monthly_sales, df.rows, "month", "quantity")

C5_Witness ==
    /\ TrendDrawn
    /\ Len(df.rows) = 2
    /\ df.rows[1].date = Date(1, 2)
    /\ df.rows[2].date = Date(1, 1)
    /\ Len(daily_sales) = 2

\* C6: the product filter keeps exactly the records of the selected product,
\* and per day the per-product aggregates of all selectable products add up
\* to the unfiltered aggregate, records without a productId included.
C6_FilterSum ==
    ProductTrendDrawn =>
        /\ \E S \in SUBSET {j \in Positions(df.rows) :
                              df.rows[j].productId = selected_product} :
             \A k \in PeriodsOf(df.rows, "day") :
               ValueAt(product_daily, k) =
                 SumAt(df.rows, {j \in S : DayOf(df.rows[j].date) = k}, "quantity")
        /\ \A k \in PeriodsOf(df.rows, "day") :
             SumOverProducts(products, df.rows, k)
               = ValueAt(GroupBySum(df.rows, "day", "quantity"), k)

\* C7: a record whose date cannot be parsed is left out alone: the other
\* records are aggregated as if it were absent and the processing-error path
\* is not taken.
C7_ParseFailureIsolated ==
    (OverviewDone /\ {"date", "total"} \subseteq df.columns /\ ~CanParse(df.rows)) =>
        /\ "error:processing" \notin page
        /\ daily_sales = GroupBySum(GoodRows(df.rows), "day", "total")

\* C8: when the forecast stage ends in a warning or an error, the overview
\* and product results of the run are on the page, the processing-error path
\* was not taken, and no forecast, forecast chart or export was emitted.
C8_ForecastErrorIsolation ==
    (pc = "idle" /\ ("error:forecast" \in page \/ "warning:history" \in page)) =>
        /\ "metrics" \in page
        /\ n_orders = Len(df.rows)
        /\ TrendDrawn => daily_sales = GroupBySum(df.rows, "day", "total")
        /\ "product_metrics" \in page \/ "warning:no_product" \in page
        /\ "error:processing" \notin page
        /\ "chart:forecast" \notin page
        /\ "download:csv" \notin page
        /\ ~ForecastProduced
        /\ widgets = {"Logout", "Generate"}

C8_Witness ==
    /\ pc = "idle"
    /\ "error:forecast" \in page
    /\ FitAttempted
    /\ TrendDrawn
    /\ ProductTrendDrawn

\* C9: aggregating any reordering of the records gives the identical series.
C9_AggregationDeterminism ==
    \A p \in Shuffles(df.rows) :
        /\ TrendDrawn => GroupBySum(p, "day", "total") = daily_sales
        /\ ProductTrendDrawn =>
             GroupBySum(SelectRows(p, selected_product), "day", "quantity")
               = product_daily
        /\ MonthlyBuilt => MonthlySales(p) = monthly_sales

C9_Witness ==
    /\ TrendDrawn
    /\ ProductTrendDrawn
    /\ Len(df.rows) = 2
    /\ df.rows[1].date = df.rows[2].date
    /\ df.rows[1].quantity # df.rows[2].quantity
    /\ Len(product_daily) = 1
    /\ product_daily[1].value = df.rows[1].quantity + df.rows[2].quantity

C10_Gate ==
    /\ authenticated =>
         /\ api_key # None
         /\ last_connect.key = api_key
         /\ Success(last_connect.response)
    /\ fetch_key # None =>
         /\ run_auth
         /\ click # "Logout"
         /\ fetch_key = api_key
C10_Step ==
    /\ (pc = "auth" /\ click = "Connect" /\ pc' = "idle") =>
         UNCHANGED <<authenticated, api_key>>
    /\ (pc = "auth" /\ click = "Connect" /\ ~Success(last_connect'.response)) =>
         UNCHANGED <<authenticated, api_key>>
    /\ (pc = "main" /\ click = "Logout") =>
         /\ ~authenticated'
         /\ api_key' = None
         /\ pc' = "main"
         /\ click' = "none"
         /\ fetch_key' = None

\* C10: authenticated holds only with the non-null key whose Connect was the
\* most recent one and passed test_connection; a failed or empty-key Connect
\* changes neither field; a Logout click resets both and reruns at once; data
\* is fetched only in a run that began authenticated, without a Logout click,
\* and with the stored key.
C10_SessionGate == [](C10_Gate) /\ [][C10_Step]_vars

C10_Witness ==
    /\ authenticated
    /\ api_key = "k2"
    /\ fetch_key = "k2"
    /\ pc = "tab1"

====
